---- MODULE Spec2Model ----
(***************************************************************************)
(* kbd-informer: a GNOME Shell extension that polls the keyboard modifier  *)
(* state, renders the active modifiers in a panel indicator and shows an   *)
(* OSD on every monitor when a lock key changes (src/extension.js, lines   *)
(* 1-572), together with its preferences window (lines 591-1046).          *)
(***************************************************************************)
EXTENDS Integers, Sequences, FiniteSets, TLC

\* ------------------------------------------------------------------ bounds

\* At most this many monitors are ever connected.
MaxMonitors == 2

\* At most this many modifier bits are set in one polled state.
MaxHeld == 2

\* At most this many changes of a symbol setting happen in one run.
MaxSettingsChanges == 1

\* At most this many toggles of one lock key are counted between two polls.
MaxToggles == 2

\* The compositor's unredirect calls are counted up to this difference.
MaxUnredirect == 2

\* ---------------------------------------------------------- host constants

\* Clutter.ModifierType values behind MODIFIER_MASKS.
SHIFT_MASK == 1
LOCK_MASK == 2
CONTROL_MASK == 4
MOD1_MASK == 8
MOD2_MASK == 16
MOD3_MASK == 32
MOD4_MASK == 64
MOD5_MASK == 128

\* The masks in the order of the MODIFIER_MASKS object.
MODIFIER_MASKS ==
    << SHIFT_MASK, LOCK_MASK, CONTROL_MASK, MOD1_MASK,
       MOD2_MASK, MOD3_MASK, MOD4_MASK, MOD5_MASK >>

\* JavaScript's null for previousState and for the poll timer's id.
NULL == -1

\* GLib.SOURCE_CONTINUE / GLib.SOURCE_REMOVE: what a timer callback returns.
SOURCE_CONTINUE == TRUE
SOURCE_REMOVE == FALSE

\* The settings keys read by loadSettings, in the order it reads them.
SETTINGS_KEYS ==
    << "shift-symbol", "caps-symbol", "control-symbol", "alt-symbol",
       "num-symbol", "scroll-symbol", "super-symbol", "altgr-symbol" >>

\* ------------------------------------------------------------------ helpers

Range(seq) == { seq[i] : i \in DOMAIN seq }

\* state & mask, for a mask of one bit.
BitAnd(state, mask) == ((state \div mask) % 2) * mask

\* Array.prototype.join(sep) on an array of strings.
RECURSIVE Join(_, _)
Join(strs, sep) ==
    IF strs = << >> THEN ""
    ELSE IF Len(strs) = 1 THEN strs[1]
    ELSE strs[1] \o sep \o Join(Tail(strs), sep)

\* ---------------------------------------------------- ModifierStateTracker

\* hasStateChanged() answering true whatever the two states.
hasStateChanged_always(cur, prev) == TRUE

\* hasStateChanged(): currentState !== previousState.
hasStateChanged(cur, prev) == cur # prev

\* isModifierActive(mask): (currentState & mask) !== 0.
isModifierActive(cur, mask) == BitAnd(cur, mask) # 0

\* getModifierChangeInfo without the wasActive !== isActive test.
getModifierChangeInfo_always(prev, cur, mask) ==
    IF prev = NULL THEN << >>
    ELSE << [wasActive |-> BitAnd(prev, mask) # 0, isActive |-> BitAnd(cur, mask) # 0] >>

\* getModifierChangeInfo with wasActive and isActive exchanged.
getModifierChangeInfo_swapped(prev, cur, mask) ==
    IF prev = NULL THEN << >>
    ELSE LET wasActive == BitAnd(cur, mask) # 0
             isActive == BitAnd(prev, mask) # 0
         IN IF wasActive # isActive
            THEN << [wasActive |-> wasActive, isActive |-> isActive] >>
            ELSE << >>

\* getModifierChangeInfo(mask): << >> stands for the null it returns.
getModifierChangeInfo(prev, cur, mask) ==
    IF prev = NULL THEN << >>
    ELSE LET wasActive == BitAnd(prev, mask) # 0
             isActive == BitAnd(cur, mask) # 0
         IN IF wasActive # isActive
            THEN << [wasActive |-> wasActive, isActive |-> isActive] >>
            ELSE << >>

\* reset(): the state the constructor leaves.
reset == [currentState |-> 0, previousState |-> NULL]

\* updateState(newState) on the tracker t.
updateState(t, newState) == [currentState |-> newState, previousState |-> t.currentState]

\* ------------------------------------------------------------------- state

VARIABLES
    enabled,           \* between enable() and disable()
    stateTracker,      \* ModifierStateTracker: [currentState, previousState]
    settings,          \* the host's settings: key -> string
    symbols,           \* SettingsManager.symbols.modifiers: << <<mask, symbol>>, ... >>
    settingsHandlers,  \* 'changed' handlers the extension has connected
    panelIndicators,   \* indicators the extension has in the panel's right box
    labelText,         \* PanelIndicator._label.text
    monitors,          \* Main.layoutManager.monitors.length
    monitorsHandlers,  \* 'monitors-changed' handlers the manager has connected
    osdWindows,        \* ModifiersOSDManager._osdWindows: ids of OSD actors, 0 = empty
    osds,              \* the live ModifiersOSD actors (children of Main.uiGroup): id -> actor
    pollTimers,        \* registered GLib sources whose callback is _onUpdate
    updateTimeoutId,   \* the extension's _updateTimeoutId, NULL when unset
    shown,             \* the (title, status) pairs _showNotification got in the latest poll
    settingsChanges,   \* symbol settings changed so far in this run
    kbd,               \* the modifier state of the keyboard: what global.get_pointer() reports
    toggles,           \* lock mask -> times the key was toggled since the latest poll
    rebuilt,           \* a 'monitors-changed' signal has reached the manager since enable()
    savedValue,        \* the GSettings value of 'saved-symbols'
    prefsOpen,         \* fillPreferencesWindow() has run
    currentSymbols,    \* the preferences' SettingsManager.currentSymbols
    savedSymbols,      \* the preferences' SettingsManager.savedSymbols
    entries,           \* EntryManager.entries: key -> text of its Gtk.Entry
    resetSensitive,    \* resetButton.sensitive
    saveSensitive,     \* saveButton.sensitive
    changeInfo,        \* the latest direct call of getModifierChangeInfo: its inputs and result
    unredirect         \* global.compositor: disable_unredirect() calls minus enable_unredirect() calls

\* The variables of the preferences window.
prefsVars == << prefsOpen, currentSymbols, savedSymbols, entries, resetSensitive,
               saveSensitive >>

vars == << enabled, stateTracker, settings, symbols, settingsHandlers,
           panelIndicators, labelText, monitors, monitorsHandlers, osdWindows,
           osds, pollTimers, updateTimeoutId, shown, settingsChanges, kbd,
           toggles, rebuilt, savedValue, prefsOpen, currentSymbols, savedSymbols,
           entries, resetSensitive, saveSensitive, changeInfo, unredirect >>

\* ------------------------------------------------------------ ModifiersOSD

\* _reset(): super.hide() and both labels emptied.
OSD_reset(o) == [o EXCEPT !.visible = FALSE, !.title = "", !.status = ""]

\* _init(monitorIndex): no hide timer, hidden, labels empty. `sources` is the
\* set of GLib sources pending with this actor's _hide as their callback.
OSD_init(monitorIndex) ==
    OSD_reset([monitorIndex |-> monitorIndex, hideTimeoutId |-> 0, sources |-> {},
               visible |-> TRUE, title |-> "", status |-> "", ease |-> "none"])

\* _showWithAnimation(): super.show(), opacity 0, ease to 255.
OSD_showWithAnimation(o) == [o EXCEPT !.visible = TRUE, !.ease = "fadeIn"]

\* _clearHideTimeout(): remove the pending source, if any.
OSD_clearHideTimeout(o) ==
    IF o.hideTimeoutId # 0
    THEN [o EXCEPT !.sources = @ \ { o.hideTimeoutId }, !.hideTimeoutId = 0]
    ELSE o

\* GLib.timeout_add returns the id of a new source: positive, and never the id
\* of the source that has just been removed.
NewSourceId(removed) == IF removed = 1 THEN 2 ELSE 1

\* _scheduleHide() without the timeout_add: the old timer cleared, none armed.
OSD_scheduleHide_unarmed(o) == OSD_clearHideTimeout(o)

\* _scheduleHide() without its _clearHideTimeout(): the old timer stays pending.
OSD_scheduleHide_uncleared(o) ==
    [o EXCEPT !.hideTimeoutId = NewSourceId(o.hideTimeoutId),
              !.sources = @ \cup { NewSourceId(o.hideTimeoutId) }]

\* _scheduleHide(): clear the pending timer, arm a new one.
OSD_scheduleHide(o) ==
    [OSD_clearHideTimeout(o) EXCEPT !.hideTimeoutId = NewSourceId(o.hideTimeoutId),
                                    !.sources = @ \cup { NewSourceId(o.hideTimeoutId) }]

\* show(title, status).
OSD_show(o, title, status) ==
    LET labelled == [o EXCEPT !.title = title, !.status = status]
        shownNow == IF ~labelled.visible THEN OSD_showWithAnimation(labelled)
                    ELSE labelled
    IN OSD_scheduleHide(shownNow)

\* onComplete of the fade-out started by _hide().
OSD_fadeOutComplete(o) == [OSD_reset(o) EXCEPT !.ease = "none"]

\* _hide(): _hideTimeoutId = 0 and the ease to opacity 0. On a hidden actor
\* the ease makes no transition and runs onComplete before it returns.
OSD_hide(o) ==
    LET easing == [o EXCEPT !.hideTimeoutId = 0, !.ease = "fadeOut"]
    IN IF o.visible THEN easing ELSE OSD_fadeOutComplete(easing)

\* The source `source` is dispatched: _hide() runs and returns SOURCE_REMOVE,
\* which removes the source.
OSD_hideTimeout(o, source) == [OSD_hide(o) EXCEPT !.sources = @ \ { source }]

\* cancel(): with a timer pending, remove it and hide at once.
OSD_cancel(o) ==
    IF o.hideTimeoutId # 0 THEN OSD_hide(OSD_clearHideTimeout(o)) ELSE o

\* The disable_unredirect() calls of a step from the actors `before` to the
\* actors `after`: one by each _showWithAnimation(), which is what makes a
\* hidden actor visible.
DisableUnredirectCalls(before, after) ==
    Cardinality({ id \in DOMAIN before \cap DOMAIN after :
                     ~before[id].visible /\ after[id].visible })

\* The enable_unredirect() calls made while _hide() runs on the actors ids of
\* heap: one by each onComplete that runs before _hide() returns, which it
\* does on a hidden actor.
EnableUnredirectCalls(ids, heap) ==
    Cardinality({ id \in ids \cap DOMAIN heap : ~heap[id].visible })

\* The count n after delta more calls (disable counts 1, enable -1); a count
\* that has reached MaxUnredirect either way is no longer followed.
Unredirect(n, delta) ==
    IF n >= MaxUnredirect \/ n <= - MaxUnredirect THEN n
    ELSE IF n + delta >= MaxUnredirect THEN MaxUnredirect
    ELSE IF n + delta <= - MaxUnredirect THEN - MaxUnredirect
    ELSE n + delta

\* --------------------------------------------------- ModifiersOSDManager

\* this._osdWindows[i], i counted from 0: 0 stands for undefined and null.
OsdAt(wins, i) == IF i + 1 \in DOMAIN wins THEN wins[i + 1] ELSE 0

\* this._osdWindows[i] = id: the array grows when i is past its end.
SetOsdAt(wins, i, id) ==
    [k \in 1..(IF i + 1 > Len(wins) THEN i + 1 ELSE Len(wins)) |->
        IF k = i + 1 THEN id ELSE IF k \in DOMAIN wins THEN wins[k] ELSE 0]

\* The identity of a newly constructed actor: one that no live actor has.
NewActor(heap) == CHOOSE id \in 1..(Cardinality(DOMAIN heap) + 1) : id \notin DOMAIN heap

\* _onMonitorsChanged(), first loop, from index i on: an OSD for every monitor
\* that has none.
RECURSIVE CreateMissing(_, _, _, _)
CreateMissing(i, monitorCount, wins, heap) ==
    IF i >= monitorCount THEN [wins |-> wins, heap |-> heap]
    ELSE IF OsdAt(wins, i) = 0
    THEN LET id == NewActor(heap)
         IN CreateMissing(i + 1, monitorCount, SetOsdAt(wins, i, id),
                          [k \in DOMAIN heap \cup {id} |->
                              IF k = id THEN OSD_init(i) ELSE heap[k]])
    ELSE CreateMissing(i + 1, monitorCount, wins, heap)

\* RemoveGone without the destroy(): the array is cut, the actors stay.
RemoveGone_leak(monitorCount, wins, heap) ==
    [wins |-> [k \in 1..monitorCount |-> OsdAt(wins, k - 1)], heap |-> heap]

\* _onMonitorsChanged(), second loop and the truncation: the OSDs of the
\* monitors that no longer exist are destroyed, the array is cut to monitorCount.
RemoveGone(monitorCount, wins, heap) ==
    LET gone == { wins[k] : k \in { j \in DOMAIN wins : j > monitorCount } } \ {0}
    IN [wins |-> [k \in 1..monitorCount |-> OsdAt(wins, k - 1)],
        heap |-> [k \in DOMAIN heap \ gone |-> heap[k]]]

\* _onMonitorsChanged() destroying every OSD and creating all of them anew.
onMonitorsChanged_recreate(monitorCount, wins, heap) ==
    CreateMissing(0, monitorCount, << >>,
                  [id \in DOMAIN heap \ Range(wins) |-> heap[id]])

\* _onMonitorsChanged().
onMonitorsChanged(monitorCount, wins, heap) ==
    LET created == CreateMissing(0, monitorCount, wins, heap)
    IN RemoveGone(monitorCount, created.wins, created.heap)

\* show(title, status) reaching the OSD of the first monitor only.
ManagerShow_primary(wins, heap, title, status) ==
    [id \in DOMAIN heap |->
        IF id = OsdAt(wins, 0) THEN OSD_show(heap[id], title, status) ELSE heap[id]]

\* ModifiersOSDManager.show(title, status): every OSD of the array is shown.
ManagerShow(wins, heap, title, status) ==
    [id \in DOMAIN heap |->
        IF id \in Range(wins) THEN OSD_show(heap[id], title, status) ELSE heap[id]]

\* ModifiersOSDManager.hideAll(): cancel() on every OSD of the array.
ManagerHideAll(wins, heap) ==
    [id \in DOMAIN heap |->
        IF id \in Range(wins) THEN OSD_cancel(heap[id]) ELSE heap[id]]

\* ModifiersOSDManager.destroy() leaving the first OSD of the array alive.
ManagerDestroy_keepFirst(wins, heap) ==
    [id \in DOMAIN heap \ Range(IF wins = << >> THEN wins ELSE Tail(wins)) |-> heap[id]]

\* ModifiersOSDManager.destroy(): every OSD of the array is destroyed.
ManagerDestroy(wins, heap) ==
    [id \in DOMAIN heap \ Range(wins) |-> heap[id]]

\* ---------------------------------------------------- InputDeviceManager

\* getCurrentModifierState(): the pointer's modifiers, 0 when there are none.
getCurrentModifierState(modifiers) == IF modifiers # NULL THEN modifiers ELSE 0

\* ------------------------------------------------------- SettingsManager

\* loadSettings() with the AltGr row filed under Alt's mask.
loadSettings_twoAlt(st) ==
    << << SHIFT_MASK, st["shift-symbol"] >>,
       << LOCK_MASK, st["caps-symbol"] >>,
       << CONTROL_MASK, st["control-symbol"] >>,
       << MOD1_MASK, st["alt-symbol"] >>,
       << MOD2_MASK, st["num-symbol"] >>,
       << MOD3_MASK, st["scroll-symbol"] >>,
       << MOD4_MASK, st["super-symbol"] >>,
       << MOD1_MASK, st["altgr-symbol"] >> >>

\* loadSettings(): symbols.modifiers, the array of [mask, string] pairs read
\* from the settings st.
loadSettings(st) ==
    << << SHIFT_MASK, st["shift-symbol"] >>,
       << LOCK_MASK, st["caps-symbol"] >>,
       << CONTROL_MASK, st["control-symbol"] >>,
       << MOD1_MASK, st["alt-symbol"] >>,
       << MOD2_MASK, st["num-symbol"] >>,
       << MOD3_MASK, st["scroll-symbol"] >>,
       << MOD4_MASK, st["super-symbol"] >>,
       << MOD5_MASK, st["altgr-symbol"] >> >>

\* ------------------------------------------------------------ preferences

\* CONFIG_KEYS.modifiers.
CONFIG_KEYS ==
    << "shift-symbol", "caps-symbol", "control-symbol", "alt-symbol",
       "num-symbol", "scroll-symbol", "super-symbol", "altgr-symbol" >>

\* getSymbolPresets().modifiers.get('Symbols'): the values 'Reset to defaults'
\* applies, key by key; a glyph outside ASCII is written as its code point.
SYMBOL_PRESETS ==
    << "U+21E7", "Caps", "^", "U+2387", "Num", "U+21F3", "U+2756", "U+2387" >>

\* The object {}.
EmptyObj == [key \in {} |-> ""]

\* What reading a property an object does not have gives.
UNDEFINED == "<undefined>"

\* obj[key].
Get(obj, key) == IF key \in DOMAIN obj THEN obj[key] ELSE UNDEFINED

\* obj[key] = value.
Put(obj, key, value) ==
    [k \in DOMAIN obj \cup { key } |-> IF k = key THEN value ELSE obj[k]]

\* value ?? ''.
OrEmpty(value) == IF value = UNDEFINED THEN "" ELSE value

\* _getSymbolsFromSettings(keys): Object.fromEntries of [key, get_string(key)].
getSymbolsFromSettings(keys, st) == [key \in Range(keys) |-> st[key]]

\* symbolsEqual(obj1, obj2).
symbolsEqual(obj1, obj2) ==
    /\ Cardinality(DOMAIN obj1) = Cardinality(DOMAIN obj2)
    /\ \A key \in DOMAIN obj1 : OrEmpty(Get(obj1, key)) = OrEmpty(Get(obj2, key))

\* EntryManager.getEntryText(key): '' when the key has no entry.
getEntryText(texts, key) == IF key \in DOMAIN texts THEN texts[key] ELSE ""

\* EntryManager.getAllEntryTexts(keys).
getAllEntryTexts(texts, keys) == [key \in Range(keys) |-> getEntryText(texts, key)]

\* EntryManager.updateEntry(key, value): the entry's 'changed' handler is blocked.
updateEntry(texts, key, value) ==
    IF key \notin DOMAIN texts THEN texts ELSE [texts EXCEPT ![key] = value]

\* SimpleManager.isCurrentEqualToDefault(entryManager).
isCurrentEqualToDefault(keys, defaultValues, texts) ==
    \A i \in DOMAIN keys : getEntryText(texts, keys[i]) = defaultValues[i]

\* SimpleManager.isCurrentEqualToSaved(entryManager).
isCurrentEqualToSaved(keys, texts, current) ==
    \A i \in DOMAIN keys : getEntryText(texts, keys[i]) = Get(current, keys[i])

\* applyDefaults() stopping before the last key.
applyDefaults_butLast(i, keys, defaultValues, texts) ==
    [key \in DOMAIN texts |->
        IF \E j \in i..(Len(keys) - 1) : keys[j] = key
        THEN defaultValues[CHOOSE j \in i..(Len(keys) - 1) : keys[j] = key]
        ELSE texts[key]]

\* SimpleManager.applyDefaults(entryManager), from the i-th key on.
RECURSIVE applyDefaults(_, _, _, _)
applyDefaults(i, keys, defaultValues, texts) ==
    IF i > Len(keys) THEN texts
    ELSE applyDefaults(i + 1, keys, defaultValues,
                       updateEntry(texts, keys[i], defaultValues[i]))

\* The operators below take and give the preferences' state as a record p:
\* settings (the symbol keys of the GSettings object), savedValue (its
\* 'saved-symbols' key), currentSymbols, savedSymbols, entries (key -> text of
\* its Gtk.Entry), resetSensitive and saveSensitive (the two buttons).

\* GroupBuilder._updateButtonStates().
updateButtonStates(p) ==
    [p EXCEPT !.resetSensitive =
                  ~isCurrentEqualToDefault(CONFIG_KEYS, SYMBOL_PRESETS, p.entries),
              !.saveSensitive =
                  ~isCurrentEqualToSaved(CONFIG_KEYS, p.entries, p.currentSymbols)]

\* The 'changed::<key>' handler _createEntryRows() connects for key's row.
onKeyChanged(key, p) ==
    LET newValue == p.settings[key]
        currentValue == Get(p.currentSymbols, key)
    IN IF currentValue # newValue
       THEN updateButtonStates(
                [p EXCEPT !.currentSymbols = Put(@, key, newValue),
                          !.entries = updateEntry(@, key, newValue)])
       ELSE p

\* The 'changed::saved-symbols' handler _setupButtonLogic() connects.
onSavedSymbolsChanged(p) ==
    LET newSavedSymbols == p.savedValue
    IN IF ~symbolsEqual(p.savedSymbols, newSavedSymbols)
       THEN updateButtonStates([p EXCEPT !.savedSymbols = newSavedSymbols])
       ELSE p

\* setString(key, value): set_string() runs the key's handler before it
\* returns when the value is new, then currentSymbols[key] is assigned.
setString(key, value, p) ==
    LET written == [p EXCEPT !.settings[key] = value]
        notified == IF value # p.settings[key] /\ key \in DOMAIN p.entries
                    THEN onKeyChanged(key, written)
                    ELSE written
    IN [notified EXCEPT !.currentSymbols = Put(@, key, value)]

\* setSavedSymbols(symbols) keeping its copy and writing nothing.
setSavedSymbols_unwritten(newSymbols, p) == [p EXCEPT !.savedSymbols = newSymbols]

\* setSavedSymbols(symbols): a copy is kept and written to 'saved-symbols'.
setSavedSymbols(newSymbols, p) ==
    LET written == [p EXCEPT !.savedSymbols = newSymbols, !.savedValue = newSymbols]
    IN IF newSymbols # p.savedValue THEN onSavedSymbolsChanged(written) ELSE written

\* The loop of saveCurrentAsPreset(), from the i-th key on.
RECURSIVE saveEach(_, _, _, _)
saveEach(i, keys, entryTexts, p) ==
    IF i > Len(keys) THEN p
    ELSE LET value == entryTexts[keys[i]]
             stored == setString(keys[i], value, p)
         IN saveEach(i + 1, keys, entryTexts,
                     [stored EXCEPT !.savedSymbols = Put(@, keys[i], value)])

\* SimpleManager.saveCurrentAsPreset(entryManager).
saveCurrentAsPreset(keys, p) ==
    LET saved == saveEach(1, keys, getAllEntryTexts(p.entries, keys), p)
    IN setSavedSymbols(saved.savedSymbols, saved)

\* GroupBuilder._createEntryRows(): one entry per key, its text
\* currentSymbols[key] || ''.
createEntryRows(keys, p) ==
    [p EXCEPT !.entries =
        [key \in Range(keys) |->
            IF Get(p.currentSymbols, key) = UNDEFINED THEN ""
            ELSE Get(p.currentSymbols, key)]]

\* fillPreferencesWindow(): initialize(), then createGroup() with its
\* _setupButtonLogic() (the buttons' first update) and _createEntryRows().
fillPreferencesWindow(p) ==
    LET loaded == [p EXCEPT !.currentSymbols =
                                getSymbolsFromSettings(CONFIG_KEYS, p.settings),
                            !.savedSymbols = p.savedValue,
                            !.entries = EmptyObj]
    IN createEntryRows(CONFIG_KEYS, updateButtonStates(loaded))

\* ------------------------------------- KeyboardModifiersStatusExtension

\* The notification with its title taken from wasActive.
LockNotification_wasActive(prev, cur, mask, name) ==
    LET change == getModifierChangeInfo(prev, cur, mask)
    IN IF change # << >>
       THEN << << IF change[1].wasActive THEN "On" ELSE "Off", name >> >>
       ELSE << >>

\* One of the three blocks of _handleModifierNotifications(): the arguments
\* of the _showNotification call it makes, if it makes one.
LockNotification(prev, cur, mask, name) ==
    LET change == getModifierChangeInfo(prev, cur, mask)
    IN IF change # << >>
       THEN << << IF change[1].isActive THEN "On" ELSE "Off", name >> >>
       ELSE << >>

\* handleModifierNotifications with the Num Lock block testing MOD3 as well.
handleModifierNotifications_mod3(prev, cur) ==
    IF prev = NULL THEN << >>
    ELSE LockNotification(prev, cur, LOCK_MASK, "Caps")
         \o LockNotification(prev, cur, MOD3_MASK, "Num")
         \o LockNotification(prev, cur, MOD3_MASK, "Scroll")

\* handleModifierNotifications with the Caps Lock block testing Shift's mask.
handleModifierNotifications_shift(prev, cur) ==
    IF prev = NULL THEN << >>
    ELSE LockNotification(prev, cur, SHIFT_MASK, "Caps")
         \o LockNotification(prev, cur, MOD2_MASK, "Num")
         \o LockNotification(prev, cur, MOD3_MASK, "Scroll")

\* handleModifierNotifications with its three blocks in the opposite order.
handleModifierNotifications_reversed(prev, cur) ==
    IF prev = NULL THEN << >>
    ELSE LockNotification(prev, cur, MOD3_MASK, "Scroll")
         \o LockNotification(prev, cur, MOD2_MASK, "Num")
         \o LockNotification(prev, cur, LOCK_MASK, "Caps")

\* _handleModifierNotifications(): the _showNotification calls, in order.
handleModifierNotifications(prev, cur) ==
    IF prev = NULL THEN << >>
    ELSE LockNotification(prev, cur, LOCK_MASK, "Caps")
         \o LockNotification(prev, cur, MOD2_MASK, "Num")
         \o LockNotification(prev, cur, MOD3_MASK, "Scroll")

\* _showNotification(title, message) for each call, one after the other.
RECURSIVE ShowEach(_, _, _)
ShowEach(notes, wins, heap) ==
    IF notes = << >> THEN heap
    ELSE ShowEach(Tail(notes), wins,
                  ManagerShow(wins, heap, Head(notes)[1], Head(notes)[2]))

\* activeModifiers with unshift in place of push: the symbols come out reversed.
RECURSIVE activeModifiers_unshift(_, _)
activeModifiers_unshift(syms, cur) ==
    IF syms = << >> THEN << >>
    ELSE activeModifiers_unshift(Tail(syms), cur)
         \o (IF isModifierActive(cur, Head(syms)[1]) THEN << Head(syms)[2] >> ELSE << >>)

\* _updatePanelIndicator(), the loop: the symbols of the active modifiers.
RECURSIVE activeModifiers(_, _)
activeModifiers(syms, cur) ==
    IF syms = << >> THEN << >>
    ELSE (IF isModifierActive(cur, Head(syms)[1]) THEN << Head(syms)[2] >> ELSE << >>)
         \o activeModifiers(Tail(syms), cur)

\* _updatePanelIndicator(): the text handed to updateText.
indicatorText(syms, cur) == Join(activeModifiers(syms, cur), " ")

\* _onUpdate() ending its timer on the early return.
onUpdateResult_remove(changed) == IF changed THEN SOURCE_CONTINUE ELSE SOURCE_REMOVE

\* What _onUpdate() returns, on the early return and at its end.
onUpdateResult(changed) == IF changed THEN SOURCE_CONTINUE ELSE SOURCE_CONTINUE

\* enable().
Enable ==
    /\ ~enabled
    /\ enabled' = TRUE
    /\ stateTracker' = [currentState |-> 0, previousState |-> NULL]
    /\ LET built == onMonitorsChanged(monitors, << >>, osds)
       IN /\ osdWindows' = built.wins
          /\ osds' = built.heap
    /\ monitorsHandlers' = monitorsHandlers + 1
    /\ symbols' = loadSettings(settings)
    /\ settingsHandlers' = settingsHandlers + 1
    /\ panelIndicators' = panelIndicators + 1
    /\ labelText' = ""
    /\ pollTimers' = pollTimers + 1
    /\ updateTimeoutId' = NewSourceId(updateTimeoutId)
    /\ shown' = << >>
    /\ toggles' = [mask \in DOMAIN toggles |-> 0]
    /\ rebuilt' = FALSE
    /\ UNCHANGED << settings, monitors, settingsChanges, kbd, savedValue, prefsVars, changeInfo,
                    unredirect >>

\* disable().
Disable ==
    /\ enabled
    /\ enabled' = FALSE
    /\ IF updateTimeoutId # NULL /\ updateTimeoutId # 0
       THEN /\ pollTimers' = pollTimers - 1
            /\ updateTimeoutId' = NULL
       ELSE UNCHANGED << pollTimers, updateTimeoutId >>
    /\ panelIndicators' = panelIndicators - 1
    /\ labelText' = ""
    /\ monitorsHandlers' = monitorsHandlers - 1
    /\ osds' = ManagerDestroy(osdWindows, osds)
    /\ osdWindows' = << >>
    /\ settingsHandlers' = settingsHandlers - 1
    /\ stateTracker' = [currentState |-> 0, previousState |-> NULL]
    /\ symbols' = << >>
    /\ shown' = << >>
    /\ toggles' = [mask \in DOMAIN toggles |-> 0]
    /\ rebuilt' = FALSE
    /\ UNCHANGED << settings, monitors, settingsChanges, kbd, savedValue, prefsVars, changeInfo,
                    unredirect >>

\* _onUpdate(), called by the poll timer when the pointer's modifiers are newState.
OnUpdate(newState) ==
    /\ enabled
    /\ pollTimers > 0
    /\ LET prev == stateTracker.currentState
           changed == hasStateChanged(newState, prev)
           notes == handleModifierNotifications(prev, newState)
       IN /\ stateTracker' = [currentState |-> newState, previousState |-> prev]
          /\ IF changed
             THEN /\ shown' = notes
                  /\ osds' = ShowEach(notes, osdWindows, osds)
                  /\ unredirect' = Unredirect(unredirect,
                                       DisableUnredirectCalls(osds, osds'))
                  /\ labelText' = indicatorText(symbols, newState)
             ELSE /\ shown' = << >>
                  /\ UNCHANGED << osds, labelText, unredirect >>
          /\ pollTimers' = IF onUpdateResult(changed) = SOURCE_CONTINUE
                           THEN pollTimers ELSE pollTimers - 1
    /\ UNCHANGED << enabled, settings, symbols, settingsHandlers, panelIndicators,
                    monitors, monitorsHandlers, osdWindows, updateTimeoutId,
                    settingsChanges, rebuilt, savedValue, prefsVars, changeInfo >>
    /\ toggles' = [mask \in DOMAIN toggles |-> 0]

\* The preferences' state as the record the preferences operators work on.
Prefs ==
    [settings |-> settings, savedValue |-> savedValue,
     currentSymbols |-> currentSymbols, savedSymbols |-> savedSymbols,
     entries |-> entries, resetSensitive |-> resetSensitive,
     saveSensitive |-> saveSensitive]

\* The record p becomes the preferences' state.
SetPrefs(p) ==
    /\ settings' = p.settings
    /\ savedValue' = p.savedValue
    /\ currentSymbols' = p.currentSymbols
    /\ savedSymbols' = p.savedSymbols
    /\ entries' = p.entries
    /\ resetSensitive' = p.resetSensitive
    /\ saveSensitive' = p.saveSensitive

\* The 'changed' handler connected by SettingsManager.initialize(), run when
\* a key of the settings was written: loadSettings(), then onSettingsChanged.
ExtensionNotified(written) ==
    IF written /\ settingsHandlers > 0
    THEN /\ symbols' = loadSettings(settings')
         /\ stateTracker' = [stateTracker EXCEPT !.previousState = NULL]
    ELSE UNCHANGED << symbols, stateTracker >>

\* What a write to the settings leaves alone in the extension.
SettingsFrame ==
    UNCHANGED << enabled, settingsHandlers, panelIndicators, labelText, monitors,
                 monitorsHandlers, osdWindows, osds, pollTimers, updateTimeoutId,
                 shown, kbd, toggles, rebuilt, changeInfo, unredirect >>

\* The host changes a symbol setting (dconf, gsettings): the extension's
\* 'changed' handler and the preferences' 'changed::<key>' handler run.
SettingsChanged(key, value) ==
    /\ settingsChanges < MaxSettingsChanges
    /\ value # settings[key]
    /\ LET written == [Prefs EXCEPT !.settings[key] = value]
       IN SetPrefs(IF prefsOpen /\ key \in DOMAIN entries
                   THEN onKeyChanged(key, written)
                   ELSE written)
    /\ settingsChanges' = settingsChanges + 1
    /\ ExtensionNotified(TRUE)
    /\ UNCHANGED prefsOpen
    /\ SettingsFrame

\* The host changes 'saved-symbols': the extension's 'changed' handler and
\* the preferences' 'changed::saved-symbols' handler run.
SavedSymbolsChanged(value) ==
    /\ value # savedValue
    /\ LET written == [Prefs EXCEPT !.savedValue = value]
       IN SetPrefs(IF prefsOpen THEN onSavedSymbolsChanged(written) ELSE written)
    /\ ExtensionNotified(TRUE)
    /\ UNCHANGED << prefsOpen, settingsChanges >>
    /\ SettingsFrame

\* The user opens the preferences: fillPreferencesWindow().
OpenPrefs ==
    /\ ~prefsOpen
    /\ prefsOpen' = TRUE
    /\ SetPrefs(fillPreferencesWindow(Prefs))
    /\ UNCHANGED << symbols, stateTracker, settingsChanges >>
    /\ SettingsFrame

\* The user edits the entry of key to text: the entry's 'changed' callback.
EditEntry(key, text) ==
    /\ prefsOpen
    /\ key \in DOMAIN entries
    /\ text # entries[key]
    /\ SetPrefs(updateButtonStates([Prefs EXCEPT !.entries[key] = text]))
    /\ UNCHANGED << prefsOpen, symbols, stateTracker, settingsChanges >>
    /\ SettingsFrame

\* The user clicks 'Reset to defaults'.
ClickReset ==
    /\ prefsOpen
    /\ resetSensitive
    /\ SetPrefs(updateButtonStates(
           [Prefs EXCEPT !.entries = applyDefaults(1, CONFIG_KEYS, SYMBOL_PRESETS, @)]))
    /\ UNCHANGED << prefsOpen, symbols, stateTracker, settingsChanges >>
    /\ SettingsFrame

\* The user clicks 'Save'.
ClickSave ==
    /\ prefsOpen
    /\ saveSensitive
    /\ SetPrefs(updateButtonStates(saveCurrentAsPreset(CONFIG_KEYS, Prefs)))
    /\ settingsChanges' = IF settings' # settings /\ settingsChanges < MaxSettingsChanges
                          THEN settingsChanges + 1 ELSE settingsChanges
    /\ ExtensionNotified(settings' # settings \/ savedValue' # savedValue)
    /\ UNCHANGED prefsOpen
    /\ SettingsFrame

\* The host's monitors change to n; 'monitors-changed' runs _onMonitorsChanged().
MonitorsChanged(n) ==
    /\ n # monitors
    /\ monitors' = n
    /\ IF monitorsHandlers > 0
       THEN LET arranged == onMonitorsChanged(n, osdWindows, osds)
            IN /\ osdWindows' = arranged.wins
               /\ osds' = arranged.heap
       ELSE UNCHANGED << osdWindows, osds >>
    /\ rebuilt' = (rebuilt \/ monitorsHandlers > 0)
    /\ UNCHANGED << enabled, stateTracker, settings, symbols, settingsHandlers,
                    panelIndicators, labelText, monitorsHandlers, pollTimers,
                    updateTimeoutId, shown, settingsChanges, kbd, toggles,
                    savedValue, prefsVars, changeInfo, unredirect >>

OsdFrame == UNCHANGED << enabled, stateTracker, settings, symbols, settingsHandlers,
                         panelIndicators, labelText, monitors, monitorsHandlers,
                         osdWindows, pollTimers, updateTimeoutId, shown,
                         settingsChanges, kbd, toggles, rebuilt, savedValue,
                         prefsVars, changeInfo >>

\* The hide timer `source` of actor id expires: _hide().
HideTimeout(id, source) ==
    /\ id \in DOMAIN osds
    /\ source \in osds[id].sources
    /\ osds' = [osds EXCEPT ![id] = OSD_hideTimeout(@, source)]
    /\ unredirect' = Unredirect(unredirect, - EnableUnredirectCalls({id}, osds))
    /\ OsdFrame

\* The fade-in started by _showWithAnimation() reaches opacity 255.
FadeInComplete(id) ==
    /\ id \in DOMAIN osds
    /\ osds[id].ease = "fadeIn"
    /\ osds' = [osds EXCEPT ![id].ease = "none"]
    /\ UNCHANGED unredirect
    /\ OsdFrame

\* The fade-out started by _hide() reaches opacity 0: its onComplete.
FadeOutComplete(id) ==
    /\ id \in DOMAIN osds
    /\ osds[id].ease = "fadeOut"
    /\ osds' = [osds EXCEPT ![id] = OSD_fadeOutComplete(@)]
    /\ unredirect' = Unredirect(unredirect, -1)
    /\ OsdFrame

\* ManagerShow called directly with any title and status.
Show(title, status) ==
    /\ enabled
    /\ osds' = ManagerShow(osdWindows, osds, title, status)
    /\ unredirect' = Unredirect(unredirect, DisableUnredirectCalls(osds, osds'))
    /\ OsdFrame

\* ModifiersOSDManager.hideAll() called directly.
HideAll ==
    /\ enabled
    /\ osds' = ManagerHideAll(osdWindows, osds)
    /\ unredirect' = Unredirect(unredirect,
                         - EnableUnredirectCalls(
                              { id \in Range(osdWindows) \cap DOMAIN osds :
                                   osds[id].hideTimeoutId # 0 }, osds))
    /\ OsdFrame

\* ----------------------------------------------------------------- inputs

\* The symbols the settings hold at first (README, Default Symbols); a glyph
\* outside ASCII is written as its code point.
DefaultSymbols ==
    [key \in Range(SETTINGS_KEYS) |->
        CASE key = "shift-symbol" -> "U+21E7"
          [] key = "caps-symbol" -> "Caps Lock "
          [] key = "control-symbol" -> "U+2303"
          [] key = "alt-symbol" -> "U+2387"
          [] key = "num-symbol" -> "Num Lock"
          [] key = "scroll-symbol" -> "U+21F3"
          [] key = "super-symbol" -> "U+2756"
          [] key = "altgr-symbol" -> "U+2388"]

\* Strings a user sets a symbol to.
SymbolValues == { "", "Fn" }

RECURSIVE BitsSet(_)
BitsSet(state) == IF state = 0 THEN 0 ELSE (state % 2) + BitsSet(state \div 2)

\* The modifier states a poll may read: any of the eight bits, at most MaxHeld at once.
ModifierStates == { s \in 0..255 : BitsSet(s) <= MaxHeld }

LockMasks == { LOCK_MASK, MOD2_MASK, MOD3_MASK }

\* The states of Shift and the three lock keys alone.
ShiftLockStates ==
    { s \in ModifierStates :
         \A mask \in { CONTROL_MASK, MOD1_MASK, MOD4_MASK, MOD5_MASK } :
            BitAnd(s, mask) = 0 }

\* The states of the three lock keys alone.
LockStates == { s \in ShiftLockStates : BitAnd(s, SHIFT_MASK) = 0 }

\* The states of Shift and Caps Lock alone.
ShiftCapsStates == { 0, SHIFT_MASK, LOCK_MASK, SHIFT_MASK + LOCK_MASK }

\* The settings keys of Shift and Caps Lock.
ShiftCapsKeys == { "shift-symbol", "caps-symbol" }

\* Values 'saved-symbols' may hold: nothing, a saved Shift symbol, or the
\* eight symbols an earlier Save stored while the settings held their defaults.
SavedValues == { EmptyObj, [key \in { "shift-symbol" } |-> "Fn"], DefaultSymbols }

\* States handed to a tracker called on its own: nothing, Caps Lock, Shift with
\* Caps Lock, Num Lock with AltGr, all eight bits.
TrackerStates ==
    { 0, LOCK_MASK, SHIFT_MASK + LOCK_MASK, MOD2_MASK + MOD5_MASK, 255 }

Titles == { "On", "Off" }
Statuses == { "Caps", "Num", "Scroll" }
ActorIds == 1..MaxMonitors
SourceIds == { NewSourceId(0), NewSourceId(NewSourceId(0)) }

\* ------------------------------------------------- the tracker on its own

\* What a call on the tracker leaves alone.
TrackerFrame ==
    UNCHANGED << enabled, settings, symbols, settingsHandlers, panelIndicators,
                 labelText, monitors, monitorsHandlers, osdWindows, osds, pollTimers,
                 updateTimeoutId, shown, settingsChanges, kbd, toggles, rebuilt,
                 savedValue, prefsVars, unredirect >>

\* reset() is called.
TrackerReset ==
    /\ stateTracker' = reset
    /\ UNCHANGED changeInfo
    /\ TrackerFrame

\* updateState(newState) is called.
TrackerUpdateState(newState) ==
    /\ stateTracker' = updateState(stateTracker, newState)
    /\ UNCHANGED changeInfo
    /\ TrackerFrame

\* previousState is set to null, as onSettingsChanged does.
TrackerForceRefresh ==
    /\ stateTracker' = [stateTracker EXCEPT !.previousState = NULL]
    /\ UNCHANGED changeInfo
    /\ TrackerFrame

\* getModifierChangeInfo(mask) is called; its result is kept with its inputs.
TrackerGetModifierChangeInfo(mask) ==
    /\ changeInfo' =
          [called |-> TRUE, mask |-> mask,
           previousState |-> stateTracker.previousState,
           currentState |-> stateTracker.currentState,
           result |-> getModifierChangeInfo(stateTracker.previousState,
                                            stateTracker.currentState, mask)]
    /\ UNCHANGED stateTracker
    /\ TrackerFrame

\* ------------------------------------------------------------ environment

\* The poll timer fires when the keyboard has moved to state s.
PollKeys(s) ==
    /\ kbd' = s
    /\ OnUpdate(getCurrentModifierState(s))

\* The poll timer fires.
PollKeyboard ==
    /\ UNCHANGED kbd
    /\ OnUpdate(getCurrentModifierState(kbd))

\* The user toggles a lock key.
KeyToggle(mask) ==
    /\ enabled
    /\ toggles[mask] < MaxToggles
    /\ kbd' = IF BitAnd(kbd, mask) # 0 THEN kbd - mask ELSE kbd + mask
    /\ toggles' = [toggles EXCEPT ![mask] = @ + 1]
    /\ UNCHANGED << enabled, stateTracker, settings, symbols, settingsHandlers,
                    panelIndicators, labelText, monitors, monitorsHandlers,
                    osdWindows, osds, pollTimers, updateTimeoutId, shown,
                    settingsChanges, rebuilt, savedValue, prefsVars, changeInfo,
                    unredirect >>

Timers ==
    \/ \E id \in ActorIds, source \in SourceIds : HideTimeout(id, source)
    \/ \E id \in ActorIds : FadeInComplete(id)
    \/ \E id \in ActorIds : FadeOutComplete(id)

\* ---------------------------------------------------------- specifications

\* Before the first enable().
Init ==
    /\ enabled = FALSE
    /\ stateTracker = [currentState |-> 0, previousState |-> NULL]
    /\ settings = DefaultSymbols
    /\ symbols = << >>
    /\ settingsHandlers = 0
    /\ panelIndicators = 0
    /\ labelText = ""
    /\ monitors \in 0..MaxMonitors
    /\ monitorsHandlers = 0
    /\ osdWindows = << >>
    /\ osds = << >>
    /\ pollTimers = 0
    /\ updateTimeoutId = NULL
    /\ shown = << >>
    /\ settingsChanges = 0
    /\ kbd = 0
    /\ toggles = [mask \in LockMasks |-> 0]
    /\ rebuilt = FALSE
    /\ savedValue \in SavedValues
    /\ prefsOpen = FALSE
    /\ currentSymbols = EmptyObj
    /\ savedSymbols = EmptyObj
    /\ entries = EmptyObj
    /\ resetSensitive = TRUE
    /\ saveSensitive = TRUE
    /\ changeInfo = [called |-> FALSE, mask |-> 0, previousState |-> NULL,
                     currentState |-> 0, result |-> << >>]
    /\ unredirect = 0

\* The extension over its whole life: Shift and Caps Lock pressed, their two
\* symbols changed, one monitor unplugged and plugged in again.
Next ==
    \/ Enable
    \/ Disable
    \/ \E s \in ShiftCapsStates : PollKeys(s)
    \/ \E key \in ShiftCapsKeys, value \in SymbolValues : SettingsChanged(key, value)
    \/ \E n \in { 0, 1 } : MonitorsChanged(n)
    \/ Timers

\* At most one monitor is connected at the start.
InitLife == Init /\ monitors \in { 0, 1 } /\ savedValue = EmptyObj

Spec == InitLife /\ [][Next]_vars

\* One monitor is connected at the start.
InitOne == Init /\ monitors = 1 /\ savedValue = EmptyObj

\* One monitor, any keyboard state, the symbol settings left alone.
NextPanel ==
    \/ Enable
    \/ \E s \in ModifierStates : PollKeys(s)

SpecPanel == InitOne /\ [][NextPanel]_vars

\* One monitor, Shift and Caps Lock, the symbol settings changing.
NextSettings ==
    \/ Enable
    \/ \E s \in ShiftCapsStates : PollKeys(s)
    \/ \E key \in Range(SETTINGS_KEYS), value \in SymbolValues : SettingsChanged(key, value)

SpecSettings == InitOne /\ [][NextSettings]_vars

\* The OSD manager driven directly: any notification, any monitor change, the
\* timers and the animations.
NextOSD ==
    \/ Enable
    \/ \E title \in Titles, status \in Statuses : Show(title, status)
    \/ \E n \in 0..MaxMonitors : MonitorsChanged(n)
    \/ Timers

\* Any number of monitors at the start, nothing saved in 'saved-symbols'.
InitOSD == Init /\ savedValue = EmptyObj

SpecOSD == InitOSD /\ [][NextOSD]_vars

\* GLib's main loop dispatches a timer that stays due, and Clutter runs a
\* transition that stays pending to its end.
TimersRun ==
    \A id \in ActorIds :
        /\ \A source \in SourceIds : WF_vars(HideTimeout(id, source))
        /\ WF_vars(FadeOutComplete(id))

SpecOSDLive == InitOSD /\ [][NextOSD]_vars /\ TimersRun

\* The lock keys polled while the OSDs come and go: Shift and the three lock
\* keys, monitor changes, disable() and the host's timers.
NextLocks ==
    \/ Enable
    \/ Disable
    \/ \E s \in ShiftLockStates : PollKeys(s)
    \/ \E n \in { 0, 1 } : MonitorsChanged(n)
    \/ Timers

SpecLocks == InitLife /\ [][NextLocks]_vars

\* The three lock keys polled with an OSD on each monitor, and the host's timers.
NextLockPolls ==
    \/ Enable
    \/ \E s \in LockStates : PollKeys(s)
    \/ Timers

SpecLockPolls == InitOSD /\ [][NextLockPolls]_vars

\* The OSDs through a whole life of the extension: show(), hideAll(), monitor
\* changes, disable() and the host's timers.
NextUnredirect ==
    \/ Enable
    \/ Disable
    \/ \E title \in Titles, status \in Statuses : Show(title, status)
    \/ HideAll
    \/ \E n \in 0..MaxMonitors : MonitorsChanged(n)
    \/ Timers

SpecUnredirect == InitOSD /\ [][NextUnredirect]_vars

\* The preferences window beside the extension: the entries of Shift and
\* Caps Lock edited, Reset and Save clicked, the settings changed from outside.
NextPrefs ==
    \/ Enable
    \/ Disable
    \/ OpenPrefs
    \/ \E key \in ShiftCapsKeys, text \in SymbolValues : EditEntry(key, text)
    \/ ClickReset
    \/ ClickSave
    \/ \E key \in ShiftCapsKeys, value \in SymbolValues : SettingsChanged(key, value)
    \/ \E value \in SavedValues : SavedSymbolsChanged(value)

SpecPrefs == Init /\ [][NextPrefs]_vars

\* A ModifierStateTracker called in any order with any state and any mask.
NextTracker ==
    \/ TrackerReset
    \/ \E s \in TrackerStates : TrackerUpdateState(s)
    \/ TrackerForceRefresh
    \/ \E mask \in Range(MODIFIER_MASKS) : TrackerGetModifierChangeInfo(mask)

SpecTracker == InitOne /\ [][NextTracker]_vars

\* The lock keys toggled between the polls.
NextKeys ==
    \/ Enable
    \/ \E mask \in LockMasks : KeyToggle(mask)
    \/ PollKeyboard

SpecKeys == InitOne /\ [][NextKeys]_vars

\* ------------------------------------------------------------------ claims

\* The text the panel is to show for a modifier state: the symbols of the set
\* bits, in the order Shift, Caps, Control, Alt, Num, Scroll, Super, AltGr, one
\* space between two of them.
ExpectedText(st, state) ==
    LET order == << << SHIFT_MASK, "shift-symbol" >>, << LOCK_MASK, "caps-symbol" >>,
                    << CONTROL_MASK, "control-symbol" >>, << MOD1_MASK, "alt-symbol" >>,
                    << MOD2_MASK, "num-symbol" >>, << MOD3_MASK, "scroll-symbol" >>,
                    << MOD4_MASK, "super-symbol" >>, << MOD5_MASK, "altgr-symbol" >> >>
        isSet(i) == (state \div order[i][1]) % 2 = 1
        text[i \in 0..8] ==
            IF i = 0 THEN ""
            ELSE IF ~isSet(i) THEN text[i - 1]
            ELSE IF \E j \in 1..(i - 1) : isSet(j)
                 THEN text[i - 1] \o " " \o st[order[i][2]]
                 ELSE st[order[i][2]]
    IN text[8]

\* C1: while the extension is enabled and no symbol setting changes, the panel
\* text is the symbols of the modifiers set in the most recently polled state,
\* in the fixed order and joined by single spaces; it is empty when none is set.
C1_PanelShowsPolledState ==
    (enabled /\ settingsChanges = 0) => labelText = ExpectedText(settings, kbd)

\* C1 witness: Caps Lock and Num Lock were polled and the panel shows both.
C1_Witness ==
    /\ enabled
    /\ kbd = LOCK_MASK + MOD2_MASK
    /\ stateTracker.currentState = kbd
    /\ labelText = "Caps Lock  Num Lock"

LockNames == << << LOCK_MASK, "Caps" >>, << MOD2_MASK, "Num" >>, << MOD3_MASK, "Scroll" >> >>

OnOff(state, mask) == IF (state \div mask) % 2 = 1 THEN "On" ELSE "Off"

\* C2: in a poll that follows another poll, every lock key whose bit differs
\* between the two polled states gets a notification with On/Off for its new
\* bit and its name, and every OSD of the manager displays a notification.
C2_LockChangeNotified ==
    [][(enabled /\ stateTracker.previousState # NULL)
        => \A i \in 1..3 :
              LET mask == LockNames[i][1]
              IN (kbd' \div mask) % 2 # (kbd \div mask) % 2
                 => /\ << OnOff(kbd', mask), LockNames[i][2] >> \in Range(shown')
                    /\ \A id \in Range(osdWindows') :
                          /\ osds'[id].visible
                          /\ osds'[id].hideTimeoutId # 0
                          /\ << osds'[id].title, osds'[id].status >> \in Range(shown')]_vars

\* C2 witness: one poll saw Caps Lock go off and Scroll Lock come on.
C2_Witness ==
    /\ enabled
    /\ shown = << << "Off", "Caps" >>, << "On", "Scroll" >> >>
    /\ \E id \in Range(osdWindows) : osds[id].visible /\ osds[id].status = "Scroll"

\* A notification for the lock key `name` is among the calls of a poll.
Notified(calls, name) == \E title \in Titles : << title, name >> \in Range(calls)

\* C3, as stated: a poll notifies every lock key that was toggled since the
\* poll before it, however often it was toggled.
C3_EveryToggleNotified ==
    [][\A i \in 1..3 :
          (enabled /\ toggles[LockNames[i][1]] > 0 /\ toggles'[LockNames[i][1]] = 0)
          => Notified(shown', LockNames[i][2])]_vars

\* C3, amended: a poll that follows another poll notifies a lock key exactly
\* when the key was toggled an odd number of times between the two polls, and
\* then with On/Off for the state the key is in at the poll; toggles that
\* cancel out between two polls are not notified.
C3_OddTogglesNotified ==
    [][(enabled /\ stateTracker.previousState # NULL
        /\ \A mask \in LockMasks : toggles'[mask] = 0)
        => \A i \in 1..3 :
              LET mask == LockNames[i][1]
                  name == LockNames[i][2]
              IN /\ toggles[mask] % 2 = 1 <=> Notified(shown', name)
                 /\ toggles[mask] % 2 = 1
                    => /\ << OnOff(kbd, mask), name >> \in Range(shown')
                       /\ \A id \in Range(osdWindows') : osds'[id].visible]_vars

\* C3 witness: Num Lock, seen on by one poll, was toggled and seen off by the next.
C3_Witness ==
    /\ enabled
    /\ shown = << << "Off", "Num" >> >>
    /\ toggles[MOD2_MASK] = 0
    /\ kbd = LOCK_MASK
    /\ \E id \in Range(osdWindows) : osds[id].title = "Off" /\ osds[id].status = "Num"

\* C4: once a poll has run after the latest change of a symbol setting, the
\* panel text is built from the newly loaded symbols for the active modifiers,
\* also when that poll read the same state as the poll before the change.
\* (previousState is null exactly from a settings change, or enable(), to the
\* next poll.)
C4_RefreshAfterSettingsChange ==
    (enabled /\ stateTracker.previousState # NULL)
    => labelText = ExpectedText(settings, kbd)

\* A step in which the manager's show() is called.
ShowCalled == \E title \in Titles, status \in Statuses : Show(title, status)

OsdAtRest(id) ==
    id \in DOMAIN osds
    => /\ ~osds[id].visible
       /\ osds[id].title = "" /\ osds[id].status = ""
       /\ osds[id].hideTimeoutId = 0
       /\ osds[id].ease # "fadeOut"

\* C5: once the show() calls stop, every OSD that is visible is hidden again,
\* and in the end every OSD stays hidden with both labels empty, no hide timer
\* pending and no fade-out running (the timers and animations being run).
C5_OsdTransient ==
    (<>[][~ShowCalled]_vars)
    => /\ \A id \in ActorIds :
            (id \in DOMAIN osds /\ osds[id].visible)
            ~> (id \notin DOMAIN osds \/ ~osds[id].visible)
       /\ <>[](\A id \in ActorIds : OsdAtRest(id))

\* C5 witness: an OSD's hide timer has fired and its fade-out is running.
C5_Witness ==
    \E id \in DOMAIN osds :
        /\ osds[id].visible
        /\ osds[id].title = "On"
        /\ osds[id].hideTimeoutId = 0
        /\ osds[id].ease = "fadeOut"

\* C5 without its premise that the show() calls stop.
C5_HiddenWhateverTheShows ==
    \A id \in ActorIds :
        (id \in DOMAIN osds /\ osds[id].visible)
        ~> (id \notin DOMAIN osds \/ ~osds[id].visible)

\* The live OSD actors constrained to monitor i.
LiveOsdsOf(i) == { id \in DOMAIN osds : osds[id].monitorIndex = i }

\* C6: while the manager exists (from its construction on, monitor changes
\* included), each monitor index 0..n-1 has exactly one live OSD, the one the
\* manager's array holds for it, and no live OSD belongs to another index.
C6_OneOsdPerMonitor ==
    monitorsHandlers > 0
    => /\ Len(osdWindows) = monitors
       /\ \A i \in 0..(monitors - 1) :
             /\ Cardinality(LiveOsdsOf(i)) = 1
             /\ LiveOsdsOf(i) = { OsdAt(osdWindows, i) }
       /\ \A id \in DOMAIN osds : osds[id].monitorIndex \in 0..(monitors - 1)

\* C6 witness: after a 'monitors-changed' that removed a monitor whose OSD was
\* being displayed, one monitor and one live OSD are left.
C6_Witness ==
    /\ rebuilt
    /\ monitors = 1
    /\ DOMAIN osds = { OsdAt(osdWindows, 0) }
    /\ osds[OsdAt(osdWindows, 0)].visible
    /\ osds[OsdAt(osdWindows, 0)].ease = "fadeOut"

\* C7, as stated: after a 'monitors-changed' no OSD that existed before the
\* event is in the manager's array.
C7_AllRecreated ==
    [][(monitorsHandlers > 0 /\ monitors' # monitors)
        => Range(osdWindows') \cap DOMAIN osds = {}]_vars

\* C7, amended: on 'monitors-changed' the OSD of every monitor index that
\* exists before and after the event is kept as it is (same actor, same text,
\* visibility and hide timer); only the OSDs of the indexes that are gone are
\* destroyed, and a new hidden OSD is created for each index that is new.
C7_KeptUnlessGone ==
    [][(monitorsHandlers > 0 /\ monitors' # monitors)
        => /\ \A i \in 0..(monitors - 1) :
                 LET id == OsdAt(osdWindows, i)
                 IN IF i < monitors'
                    THEN /\ OsdAt(osdWindows', i) = id
                         /\ id \in DOMAIN osds' /\ osds'[id] = osds[id]
                    ELSE id \notin DOMAIN osds'
           /\ \A i \in monitors..(monitors' - 1) :
                 LET id == OsdAt(osdWindows', i)
                 IN /\ id \notin DOMAIN osds
                    /\ id \in DOMAIN osds'
                    /\ ~osds'[id].visible /\ osds'[id].hideTimeoutId = 0
                    /\ osds'[id].title = "" /\ osds'[id].status = ""]_vars

\* C7 witness: a monitor was added while the first monitor's OSD was displayed:
\* the first OSD is still displayed, the new one is hidden.
C7_Witness ==
    /\ rebuilt
    /\ monitors = 2
    /\ osds[OsdAt(osdWindows, 0)].visible
    /\ osds[OsdAt(osdWindows, 0)].hideTimeoutId # 0
    /\ ~osds[OsdAt(osdWindows, 1)].visible
    /\ osds[OsdAt(osdWindows, 1)].hideTimeoutId = 0

\* C8: a call of the manager's show(title, status) leaves the OSD of every
\* connected monitor visible with that title and status and a hide timer armed.
C8_ShowReachesEveryMonitor ==
    [][\A title \in Titles, status \in Statuses :
          Show(title, status)
          => \A i \in 0..(monitors - 1) :
                LET id == OsdAt(osdWindows, i)
                IN /\ id \in DOMAIN osds'
                   /\ osds'[id].monitorIndex = i
                   /\ osds'[id].visible
                   /\ osds'[id].title = title /\ osds'[id].status = status
                   /\ osds'[id].hideTimeoutId # 0]_vars

\* C8 witness: monitors changed after enable(), and the OSDs of all of the
\* monitors display the same notification, one of them since an earlier show().
C8_Witness ==
    /\ rebuilt
    /\ monitors = MaxMonitors
    /\ \A i \in 0..(monitors - 1) :
          LET o == osds[OsdAt(osdWindows, i)]
          IN o.visible /\ o.title = "Off" /\ o.status = "Scroll" /\ o.hideTimeoutId # 0
    /\ osds[OsdAt(osdWindows, 0)].ease = "fadeOut"
    /\ osds[OsdAt(osdWindows, monitors - 1)].ease = "fadeIn"

\* C9: the keys of the symbol mapping are fixed: while the extension is enabled
\* (from initialize() on, through every change of the settings) symbols.modifiers
\* holds the eight masks Shift, Caps, Control, Alt, Num, Scroll, Super, AltGr,
\* each once and in that order, and while the preferences are open
\* currentSymbols has exactly the eight keys of CONFIG_KEYS.
C9_SymbolKeysFixed ==
    /\ enabled =>
          /\ Len(symbols) = 8
          /\ [i \in 1..Len(symbols) |-> symbols[i][1]] = MODIFIER_MASKS
    /\ prefsOpen =>
          DOMAIN currentSymbols =
              { "shift-symbol", "caps-symbol", "control-symbol", "alt-symbol",
                "num-symbol", "scroll-symbol", "super-symbol", "altgr-symbol" }

\* C9 witness: 'Fn' was typed for Caps Lock in the preferences and saved; the
\* enabled extension has reloaded it and the preferences hold it as current.
C9_Witness ==
    /\ enabled
    /\ prefsOpen
    /\ settings["caps-symbol"] = "Fn"
    /\ symbols[2] = << LOCK_MASK, "Fn" >>
    /\ currentSymbols = settings
    /\ savedValue = settings

\* C10: exactly one poll timer is registered while the extension is enabled and
\* none while it is disabled, through any sequence of enable(), polls and
\* disable(); _updateTimeoutId is set exactly while the timer is registered.
C10_SinglePollTimer ==
    /\ pollTimers = (IF enabled THEN 1 ELSE 0)
    /\ enabled <=> (updateTimeoutId # NULL /\ updateTimeoutId # 0)

\* C10 witness: the extension, disabled after it had polled Caps Lock, is
\* enabled again: one timer is registered.
C10_Witness ==
    /\ enabled
    /\ pollTimers = 1
    /\ kbd = LOCK_MASK
    /\ stateTracker = [currentState |-> 0, previousState |-> NULL]

\* C11, as stated: while the preferences are open the Save button is enabled
\* exactly when some entry's text differs from the saved symbol of its key
\* (savedSymbols).
C11_SaveEnabledIffDiffersFromSaved ==
    prefsOpen =>
        (saveSensitive <=>
            \E i \in DOMAIN CONFIG_KEYS :
                getEntryText(entries, CONFIG_KEYS[i]) # Get(savedSymbols, CONFIG_KEYS[i]))

\* C12: a click on Save leaves, for each of the eight keys, the settings
\* value, currentSymbols[key] and savedSymbols[key] equal to the text of the
\* key's entry, 'saved-symbols' holding that mapping, and the Save button
\* disabled.
C12_SaveStoresEntries ==
    [][ClickSave =>
        /\ \A i \in DOMAIN CONFIG_KEYS :
              LET key == CONFIG_KEYS[i]
                  text == getEntryText(entries', key)
              IN /\ settings'[key] = text
                 /\ Get(currentSymbols', key) = text
                 /\ Get(savedSymbols', key) = text
                 /\ Get(savedValue', key) = text
        /\ savedValue' = savedSymbols'
        /\ ~saveSensitive']_vars

\* C12 witness: 'Fn' was typed into Shift's entry and saved.
C12_Witness ==
    /\ prefsOpen
    /\ entries["shift-symbol"] = "Fn"
    /\ settings = entries
    /\ currentSymbols = entries
    /\ savedSymbols = entries
    /\ savedValue = entries
    /\ ~saveSensitive

\* C13: a click on 'Reset to defaults' leaves every entry's text equal to the
\* default value of its key (the values createGroup() was given) and the Reset
\* button disabled; the Save button is then enabled exactly when some default
\* differs from the settings value of its key.
C13_ResetAppliesDefaults ==
    [][ClickReset =>
        /\ \A i \in DOMAIN CONFIG_KEYS :
              getEntryText(entries', CONFIG_KEYS[i]) = SYMBOL_PRESETS[i]
        /\ ~resetSensitive'
        /\ saveSensitive' <=>
              \E i \in DOMAIN CONFIG_KEYS : SYMBOL_PRESETS[i] # settings'[CONFIG_KEYS[i]]]_vars

\* C13 witness: Reset was clicked while the settings held other symbols: the
\* entries show the defaults, Reset is disabled and Save is enabled.
C13_Witness ==
    /\ prefsOpen
    /\ \A i \in DOMAIN CONFIG_KEYS : Get(entries, CONFIG_KEYS[i]) = SYMBOL_PRESETS[i]
    /\ \E i \in DOMAIN CONFIG_KEYS : settings[CONFIG_KEYS[i]] # SYMBOL_PRESETS[i]
    /\ ~resetSensitive
    /\ saveSensitive

\* C13, the other case: the entries show the defaults and the settings hold
\* them already (a click on Save stored them): both buttons are disabled.
C13_WitnessNothingToSave ==
    /\ prefsOpen
    /\ \A i \in DOMAIN CONFIG_KEYS :
          /\ Get(entries, CONFIG_KEYS[i]) = SYMBOL_PRESETS[i]
          /\ settings[CONFIG_KEYS[i]] = SYMBOL_PRESETS[i]
    /\ settingsChanges > 0
    /\ ~resetSensitive
    /\ ~saveSensitive

\* C14, as stated: a click on 'Reset to defaults' leaves in every entry the
\* default symbol the README documents for its key.
C14_ResetRestoresDocumentedDefaults ==
    [][ClickReset =>
        \A i \in DOMAIN CONFIG_KEYS :
            getEntryText(entries', CONFIG_KEYS[i]) = DefaultSymbols[CONFIG_KEYS[i]]]_vars

\* The first poll after enable(): no poll has run and no setting has changed
\* since the tracker's reset().
FirstPoll ==
    /\ stateTracker.previousState = NULL
    /\ settingsChanges = 0
    /\ \E s \in ModifierStates : PollKeys(s)

\* C15, as stated: the first poll after enable() makes no _showNotification
\* call and leaves no OSD visible, whatever modifier state it reads.
C15_FirstPollSilent ==
    [][FirstPoll =>
        /\ shown' = << >>
        /\ \A id \in DOMAIN osds' : ~osds'[id].visible]_vars

\* C16, as stated: while the hide timer armed by a show(title, status) is
\* pending (it has not fired and no later show() has replaced it), the OSD
\* stays visible with that title and status, in every interleaving of show(),
\* timer expiry and fade completion.
C16_ShownUntilHideOrNextShow ==
    [][\A id \in DOMAIN osds \cap DOMAIN osds' :
          (/\ osds[id].hideTimeoutId # 0
           /\ osds'[id].hideTimeoutId = osds[id].hideTimeoutId)
          => /\ osds'[id].visible
             /\ osds'[id].title = osds[id].title
             /\ osds'[id].status = osds[id].status]_vars

\* Nothing the extension registered is left: no poll timer, no 'changed' and
\* no 'monitors-changed' handler, no OSD, no indicator in the panel.
NothingRegistered ==
    /\ pollTimers = 0
    /\ updateTimeoutId = NULL
    /\ settingsHandlers = 0
    /\ monitorsHandlers = 0
    /\ osdWindows = << >>
    /\ DOMAIN osds = {}
    /\ panelIndicators = 0

\* C17: whenever the extension is disabled nothing it registered is left, and
\* no step taken between disable() and the next enable() (a change of the
\* settings or of the monitors, a timer of the host) runs code of the
\* extension: its tracker, symbols, panel text and OSDs stay as disable() left
\* them.
C17_DisableLeavesNothing ==
    [][/\ ~enabled' => NothingRegistered'
       /\ (~enabled /\ ~enabled') =>
             UNCHANGED << stateTracker, symbols, labelText, osdWindows, osds, shown,
                          pollTimers, settingsHandlers, monitorsHandlers,
                          panelIndicators >>]_vars

\* C17 witness: the extension was disabled after it had polled Shift with Caps
\* Lock, and a symbol setting has changed.
C17_Witness ==
    /\ ~enabled
    /\ kbd = SHIFT_MASK + LOCK_MASK
    /\ settingsChanges = 1
    /\ NothingRegistered

\* A poll that reads the state the previous poll read (or, for the first
\* poll, the state reset() left).
UnchangedPoll ==
    \E s \in ModifierStates : s = stateTracker.currentState /\ PollKeys(s)

LockBitsUnchangedPoll ==
    \E s \in ModifierStates :
        /\ \A mask \in LockMasks :
              BitAnd(s, mask) = BitAnd(stateTracker.currentState, mask)
        /\ PollKeys(s)

\* C19: a poll in which the three lock bits are unchanged makes no
\* _showNotification call, changes no OSD and re-arms no hide timer, whatever
\* other modifier bits changed.
C19_NoLockChangeNoOsd ==
    [][LockBitsUnchangedPoll => (shown' = << >> /\ UNCHANGED << osds, osdWindows >>)]_vars

\* C19 witness: with Caps Lock on and its OSD displayed, a poll read Shift
\* pressed: the panel shows both and the OSD still says Caps Lock is on.
C19_Witness ==
    /\ enabled
    /\ stateTracker = [currentState |-> SHIFT_MASK + LOCK_MASK, previousState |-> LOCK_MASK]
    /\ shown = << >>
    /\ labelText = ExpectedText(settings, SHIFT_MASK + LOCK_MASK)
    /\ \A id \in DOMAIN osds :
          /\ osds[id].visible
          /\ osds[id].title = "On"
          /\ osds[id].status = "Caps"
          /\ osds[id].hideTimeoutId # 0
    /\ DOMAIN osds # {}

\* The mask's bit is set in a state.
BitSet(state, mask) == (state \div mask) % 2 = 1

\* C20: getModifierChangeInfo(mask) returns null when previousState is null or
\* the mask's bit is the same in previousState and currentState; otherwise it
\* returns {wasActive, isActive}: the bit in previousState, the bit in
\* currentState, the two different.
C20_ChangeInfo ==
    changeInfo.called =>
        LET prev == changeInfo.previousState
            cur == changeInfo.currentState
            mask == changeInfo.mask
            result == changeInfo.result
        IN IF prev = NULL \/ (BitSet(prev, mask) <=> BitSet(cur, mask))
           THEN result = << >>
           ELSE /\ Len(result) = 1
                /\ result[1].wasActive = BitSet(prev, mask)
                /\ result[1].isActive = BitSet(cur, mask)
                /\ result[1].wasActive # result[1].isActive

\* C20 witness: asked about Num Lock after the state went from Num Lock with
\* AltGr to Caps Lock, the tracker answered that Num Lock was on and is off.
C20_Witness ==
    /\ changeInfo.called
    /\ changeInfo.mask = MOD2_MASK
    /\ changeInfo.previousState = MOD2_MASK + MOD5_MASK
    /\ changeInfo.currentState = LOCK_MASK
    /\ changeInfo.result = << [wasActive |-> TRUE, isActive |-> FALSE] >>

\* C20, the null cases: asked with previousState null and a set bit, and asked
\* about a bit set in both states, the tracker answered null.
C20_WitnessNull ==
    /\ changeInfo.called
    /\ changeInfo.result = << >>
    /\ \/ changeInfo.previousState = NULL /\ BitSet(changeInfo.currentState, changeInfo.mask)
       \/ /\ changeInfo.previousState # NULL
          /\ BitSet(changeInfo.previousState, changeInfo.mask)
          /\ BitSet(changeInfo.currentState, changeInfo.mask)

\* A step in which show() ran on actor id: only show() arms a hide timer, and
\* the timer it arms is never the one it found.
ShowRanOn(id) ==
    /\ id \in DOMAIN osds \cap DOMAIN osds'
    /\ osds'[id].hideTimeoutId # 0
    /\ osds'[id].hideTimeoutId # osds[id].hideTimeoutId

\* At most one source is pending for the actor, and _hideTimeoutId is that
\* source, or 0 when none is pending.
OneHideTimer(o) ==
    /\ Cardinality(o.sources) <= 1
    /\ (o.hideTimeoutId # 0) <=> (o.sources # {})
    /\ o.hideTimeoutId # 0 => o.sources = { o.hideTimeoutId }

\* C21: each OSD has at most one pending hide timer and _hideTimeoutId is
\* non-zero exactly when one is pending; a show() removes the timer it found
\* and leaves only the one it armed, and on an already visible OSD it replaces
\* nothing but the text: the OSD stays visible and no fade-in is started.
C21_OneHideTimer ==
    [][/\ \A id \in DOMAIN osds : OneHideTimer(osds[id])
       /\ \A id \in DOMAIN osds' : OneHideTimer(osds'[id])
       /\ \A id \in DOMAIN osds \cap DOMAIN osds' :
             ShowRanOn(id) =>
                /\ osds'[id].sources = { osds'[id].hideTimeoutId }
                /\ osds[id].sources \cap osds'[id].sources = {}
                /\ osds[id].visible =>
                      /\ osds'[id].visible
                      /\ osds'[id].ease = osds[id].ease]_vars

\* A second show() came while the first one's timer was pending, on an OSD
\* whose fade-in is over: only the second timer is pending.
C21_Witness ==
    \E id \in DOMAIN osds :
        /\ osds[id].visible
        /\ osds[id].ease = "none"
        /\ osds[id].hideTimeoutId = 2
        /\ osds[id].sources = {2}

\* No OSD is on screen: each one is hidden or destroyed.
EveryOsdHidden == \A id \in DOMAIN osds : ~osds[id].visible

\* C22, as stated: enable_unredirect is never called more often than
\* disable_unredirect, and whenever every OSD is hidden or destroyed the two
\* have been called equally often.
C22_UnredirectBalanced ==
    /\ unredirect >= 0
    /\ EveryOsdHidden => unredirect = 0

\* C22, the first half alone: enable_unredirect called more often than
\* disable_unredirect is a reachable state.
C22_EnableNeverAhead == unredirect >= 0

\* C22, the second half alone: the counts differ with every OSD hidden or
\* destroyed.
C22_EqualWhenHidden == EveryOsdHidden => unredirect = 0

\* The mask _handleModifierNotifications tests for the lock key of a status.
LockMaskOf(status) ==
    CASE status = "Caps" -> LOCK_MASK
      [] status = "Num" -> MOD2_MASK
      [] status = "Scroll" -> MOD3_MASK

\* C23: a visible OSD whose status is Caps, Num or Scroll has the title On
\* exactly when that lock key's bit is set in the tracker's current state, and
\* the title Off otherwise.
C23_VisibleLockIsCurrent ==
    \A id \in DOMAIN osds :
        (osds[id].visible /\ osds[id].status \in { "Caps", "Num", "Scroll" })
        => /\ osds[id].title \in { "On", "Off" }
           /\ (osds[id].title = "On")
                <=> BitSet(stateTracker.currentState, LockMaskOf(osds[id].status))

\* The OSD still shows Off Num, with Caps Lock on all the while, after a later
\* poll that changed Shift alone.
C23_Witness ==
    \E id \in DOMAIN osds :
        /\ osds[id].visible
        /\ osds[id].title = "Off"
        /\ osds[id].status = "Num"
        /\ stateTracker.previousState = LOCK_MASK
        /\ stateTracker.currentState = LOCK_MASK + SHIFT_MASK

\* The notification due for a lock key between the polled states old and new:
\* none if its bit is the same in both.
LockChange(old, new, status) ==
    IF BitSet(old, LockMaskOf(status)) = BitSet(new, LockMaskOf(status))
    THEN << >>
    ELSE << << IF BitSet(new, LockMaskOf(status)) THEN "On" ELSE "Off", status >> >>

\* The notifications due between the polled states old and new, Caps first.
LockChanges(old, new) ==
    LockChange(old, new, "Caps") \o LockChange(old, new, "Num")
        \o LockChange(old, new, "Scroll")

\* A poll that read a state differing from the previous poll's in more than
\* one lock bit.
SeveralLocksPoll ==
    /\ enabled /\ enabled'
    /\ stateTracker'.currentState # stateTracker.currentState
    /\ Len(LockChanges(stateTracker.currentState, stateTracker'.currentState)) > 1

\* C24: a poll that finds more than one lock bit changed since the previous
\* poll notifies every change in that poll, in the order Caps, Num, Scroll;
\* after it each OSD is visible with the text of the last change alone and has
\* exactly one hide timer pending, the one _hideTimeoutId names.
C24_SeveralLocksOnePoll ==
    [][SeveralLocksPoll =>
        LET changes == LockChanges(stateTracker.currentState,
                                   stateTracker'.currentState)
            last == changes[Len(changes)]
        IN /\ shown' = changes
           /\ DOMAIN osds' = DOMAIN osds
           /\ \A id \in DOMAIN osds' :
                 /\ osds'[id].visible
                 /\ osds'[id].title = last[1]
                 /\ osds'[id].status = last[2]
                 /\ Cardinality(osds'[id].sources) = 1
                 /\ osds'[id].sources = { osds'[id].hideTimeoutId }]_vars

\* All three lock keys changed in one poll: Caps and Num released, Scroll
\* set. Two OSDs show On Scroll, each with one timer pending.
C24_Witness ==
    /\ shown = << << "Off", "Caps" >>, << "Off", "Num" >>, << "On", "Scroll" >> >>
    /\ Cardinality(DOMAIN osds) = 2
    /\ \A id \in DOMAIN osds :
          /\ osds[id].visible
          /\ osds[id].title = "On"
          /\ osds[id].status = "Scroll"
          /\ osds[id].sources = {2}
====
